---- MODULE Spec2Model ----
(***************************************************************************)
(* Shopping Basket Affinity Analyzer (src/app.py).                         *)
(*                                                                         *)
(* Two specifications over one set of variables:                           *)
(*   Spec     the affinity engine as a pipeline of its functions           *)
(*            (build_baskets, generate_pairs, compute_affinity_metrics,    *)
(*            get_top_affinities, the tab2 recommendation block), applied  *)
(*            to line-item tables and parameters drawn from bounded sets;  *)
(*   AppSpec  the Streamlit script as a state machine: one action per      *)
(*            script run, triggered by a widget interaction.               *)
(*                                                                         *)
(* Numbers.  Python floats are modelled by exact fractions <<n, d>>.       *)
(* round(x, 4) is modelled by Round4: the nearest multiple of 1/10000,     *)
(* kept as an integer number of 1/10000ths.  Every metric value of the     *)
(* model is therefore an integer in units of 0.0001 (6667 is 0.6667).      *)
(* Python rounds the double nearest to x; that differs from rounding x     *)
(* only when x lies within an ulp of a tie (2m+1)/20000, which needs a     *)
(* denominator divisible by 32.  No input of the model produces one.       *)
(***************************************************************************)
EXTENDS Integers, Sequences, FiniteSets, TLC

VARIABLES
    pc,             \* position in the pipeline (Spec) / "app" (AppSpec)
    merged_df,      \* line items joined with products: rows in file order
    baskets_df,     \* transaction_id -> list of product names
    pairs,          \* pd.Series of pair tuples
    affinity_df,    \* metric table: sequence of rows
    min_support,    \* thresholds, in units of 0.0001
    min_confidence,
    top_k,
    selected_product,
    top_results,    \* result of get_top_affinities
    recommendations,\* tab2 table
    error,          \* exception raised by the last operation, or "none"
    session_state,  \* st.session_state: key -> value
    cache,          \* st.cache_data memo of load_data: path -> table
    file,           \* content of the line-item data under BASE_PATH
    run_button,     \* value of st.sidebar.button in the last script run
    view            \* what the last script run rendered

vars == <<pc, merged_df, baskets_df, pairs, affinity_df, min_support,
          min_confidence, top_k, selected_product, top_results,
          recommendations, error, session_state, cache, file, run_button,
          view>>

engineVars == <<merged_df, baskets_df, pairs, affinity_df, min_support,
                min_confidence, top_k, selected_product, top_results,
                recommendations, error>>

appVars == <<session_state, cache, file, run_button, view>>

(***************************************************************************)
(* Bounds and program constants                                            *)
(***************************************************************************)
MaxRows == 3        \* line items in an enumerated input table
MaxTid == 2         \* transaction ids 1..MaxTid in an enumerated table
MaxK == 2           \* largest top_k passed to get_top_affinities in Spec

Digits == 4         \* round(..., 4)
RoundScale == 10 ^ Digits

\* Product names, listed in Python's string order (sorted()).
ProductNames == <<"Bread", "Eggs", "Milk">>
Products == {ProductNames[i] : i \in DOMAIN ProductNames}

Row(t, p) == [transaction_id |-> t, product_name |-> p]

(***************************************************************************)
(* build_baskets: groupby("transaction_id")["product_name"].apply(list).   *)
(* Each transaction keeps the LIST of its product names, in row order,     *)
(* duplicates included.  The grouping is one pass over the rows, written   *)
(* as a balanced fold so that long tables need only logarithmic depth.     *)
(***************************************************************************)
MergeGroups(f, g) ==
    [t \in (DOMAIN f) \cup (DOMAIN g) |->
        (IF t \in DOMAIN f THEN f[t] ELSE <<>>) \o
        (IF t \in DOMAIN g THEN g[t] ELSE <<>>)]

RECURSIVE GroupRange(_, _, _)
GroupRange(df, lo, hi) ==
    IF lo = hi
    THEN [t \in {df[lo].transaction_id} |-> <<df[lo].product_name>>]
    ELSE LET mid == (lo + hi) \div 2
         IN  MergeGroups(GroupRange(df, lo, mid), GroupRange(df, mid + 1, hi))

build_baskets(df) ==
    IF Len(df) = 0 THEN <<>> ELSE GroupRange(df, 1, Len(df))

(***************************************************************************)
(* generate_pairs                                                          *)
(***************************************************************************)
set(basket) == {basket[i] : i \in DOMAIN basket}

\* sorted(unique_items): the items of a set in string order
sorted(S) == SelectSeq(ProductNames, LAMBDA p : p \in S)

\* itertools.combinations(s, 2): pairs of positions i < j, in order
RECURSIVE CombinationsFrom(_, _)
CombinationsFrom(s, i) ==
    IF i >= Len(s) THEN <<>>
    ELSE [j \in 1..(Len(s) - i) |-> <<s[i], s[i + j]>>] \o
         CombinationsFrom(s, i + 1)

combinations(s) == CombinationsFrom(s, 1)

\* sorted(basket) of a list: every occurrence kept
RECURSIVE SortedListFrom(_, _)
SortedListFrom(basket, i) ==
    IF i > Len(ProductNames) THEN <<>>
    ELSE SelectSeq(basket, LAMBDA p : p = ProductNames[i]) \o
         SortedListFrom(basket, i + 1)

\* BasketPairs without the set(): the list is paired as it stands
BasketPairs_NoSet(basket) ==
    IF Len(basket) > 1
    THEN combinations(SortedListFrom(basket, 1))
    ELSE <<>>

\* the pairs one basket contributes (body of the loop, lines 89-91)
BasketPairs(basket) ==
    LET unique_items == set(basket)
    IN  IF Cardinality(unique_items) > 1
        THEN combinations(sorted(unique_items))
        ELSE <<>>

\* concatenation of g[lo], ..., g[hi] in key order (absent keys skipped)
RECURSIVE Flatten(_, _, _)
Flatten(g, lo, hi) ==
    IF lo > hi THEN <<>>
    ELSE IF lo = hi THEN (IF lo \in DOMAIN g THEN g[lo] ELSE <<>>)
    ELSE LET mid == (lo + hi) \div 2
         IN  Flatten(g, lo, mid) \o Flatten(g, mid + 1, hi)

\* a power of two that no key exceeds (keys are positive integers)
RECURSIVE KeyBound(_, _)
KeyBound(S, b) ==
    IF \A t \in S : t <= b THEN b ELSE KeyBound(S, 2 * b)

\* the lists of a frame concatenated in ascending key order, the order in
\* which groupby leaves the transactions
FlattenAll(g) == Flatten(g, 1, KeyBound(DOMAIN g, 1))

generate_pairs(bdf) ==
    FlattenAll([t \in DOMAIN bdf |-> BasketPairs(bdf[t])])

(***************************************************************************)
(* compute_affinity_metrics                                                *)
(***************************************************************************)
\* Series.value_counts(): value -> number of positions holding it
value_counts(s) ==
    [x \in {s[i] : i \in DOMAIN s} |->
        Cardinality({i \in DOMAIN s : s[i] = x})]

\* baskets_df["basket"].explode(): one entry per list element
explode(bdf) == FlattenAll(bdf)

\* total_transactions counting only the baskets that can hold a pair
total_transactions_Paired(bdf) ==
    Cardinality({t \in DOMAIN bdf : Cardinality(set(bdf[t])) > 1})

total_transactions(bdf) == Cardinality(DOMAIN bdf)

pair_counts(prs) == value_counts(prs)

item_counts(bdf) == value_counts(explode(bdf))

\* exact fractions
Frac(n, d) == <<n, d>>
FracDiv(x, y) == <<x[1] * y[2], x[2] * y[1]>>

\* round(x, 4) in units of 0.0001; a tie goes to the even neighbour
Round4(x) ==
    LET n == x[1] * RoundScale
        d == x[2]
        q == n \div d
        r == n % d
    IN  IF 2 * r < d THEN q
        ELSE IF 2 * r > d THEN q + 1
        ELSE IF q % 2 = 0 THEN q ELSE q + 1

\* support with the ratio inverted
support_Inverted(count, total) == Frac(total, count)

support(count, total) == Frac(count, total)

confidence(count, ic, a) == Frac(count, ic[a])

\* lift with the share of B multiplied in instead of divided out
lift_Multiplied(conf, ic, b, total) ==
    <<conf[1] * ic[b], conf[2] * total>>

lift(conf, ic, b, total) == FracDiv(conf, Frac(ic[b], total))

\* one iteration of the loop of lines 106-117
MetricRow(key, count, total, ic) ==
    LET a == key[1]
        b == key[2]
        conf == confidence(count, ic, a)
    IN  [ProductA   |-> a,
         ProductB   |-> b,
         Support    |-> Round4(support(count, total)),
         Confidence |-> Round4(conf),
         Lift       |-> Round4(lift(conf, ic, b, total))]

\* pair_counts.items(): value_counts lists the keys by descending count;
\* the order among equal counts is left to the sort, so every such order
\* is a possible one.
ItemsOrders(pcs) ==
    LET n == Cardinality(DOMAIN pcs)
    IN  {s \in [1..n -> DOMAIN pcs] :
            /\ \A i, j \in 1..n : i # j => s[i] # s[j]
            /\ \A i, j \in 1..n : i < j => pcs[s[i]] >= pcs[s[j]]}

\* the tables compute_affinity_metrics can return
compute_affinity_metrics(prs, bdf) ==
    LET total == total_transactions(bdf)
        pcs == pair_counts(prs)
        ic == item_counts(bdf)
    IN  {[i \in DOMAIN s |-> MetricRow(s[i], pcs[s[i]], total, ic)] :
            s \in ItemsOrders(pcs)}

(***************************************************************************)
(* get_top_affinities                                                      *)
(***************************************************************************)
Min(a, b) == IF a <= b THEN a ELSE b
Max(a, b) == IF a >= b THEN a ELSE b

\* pd.DataFrame([]) has no columns: selecting one raises KeyError
HasColumns(df) == Len(df) > 0

\* df[(df["Support"] >= min_support) & (df["Confidence"] >= min_confidence)]
FilterThresholds(df, ms, mc) ==
    SelectSeq(df, LAMBDA r : r.Support >= ms /\ r.Confidence >= mc)

\* sort_values("Lift", ascending=False): the default sort is not stable,
\* so every arrangement with non-increasing Lift is a possible result.
sort_values_Lift_desc(df) ==
    LET n == Len(df)
        perms == {p \in [1..n -> 1..n] :
                     /\ \A i, j \in 1..n : i # j => p[i] # p[j]
                     /\ \A i, j \in 1..n :
                            i < j => df[p[i]].Lift >= df[p[j]].Lift}
    IN  {[i \in 1..n |-> df[p[i]]] : p \in perms}

\* DataFrame.head(k): the first k rows; for negative k all but the last -k
head(df, k) ==
    IF k >= 0 THEN SubSeq(df, 1, Min(k, Len(df)))
              ELSE SubSeq(df, 1, Max(Len(df) + k, 0))

Raised(e) == [error |-> e, rows |-> <<>>]
Returned(rows) == [error |-> "none", rows |-> rows]

\* the outcomes get_top_affinities can have
get_top_affinities(df, ms, mc, k) ==
    IF ~HasColumns(df) THEN {Raised("KeyError")}
    ELSE {Returned(head(s, k)) :
             s \in sort_values_Lift_desc(FilterThresholds(df, ms, mc))}

(***************************************************************************)
(* tab2: product-based recommendations (lines 225-238)                     *)
(***************************************************************************)
WithRecommended(r, p) ==
    [ProductA |-> r.ProductA, ProductB |-> r.ProductB,
     Support |-> r.Support, Confidence |-> r.Confidence, Lift |-> r.Lift,
     RecommendedProduct |-> p]

rec_a(df, selected) ==
    LET rows == SelectSeq(df, LAMBDA r : r.ProductA = selected)
    IN  [i \in DOMAIN rows |-> WithRecommended(rows[i], rows[i].ProductB)]

rec_b(df, selected) ==
    LET rows == SelectSeq(df, LAMBDA r : r.ProductB = selected)
    IN  [i \in DOMAIN rows |-> WithRecommended(rows[i], rows[i].ProductA)]

\* the outcomes of the recommendation block
recommendations_for(df, selected, ms, mc) ==
    IF ~HasColumns(df) THEN {Raised("KeyError")}
    ELSE {Returned(s) :
             s \in sort_values_Lift_desc(
                      FilterThresholds(rec_a(df, selected) \o
                                       rec_b(df, selected), ms, mc))}

(***************************************************************************)
(* Inputs of the engine specification                                      *)
(***************************************************************************)
RowSet == {Row(t, p) : t \in 1..MaxTid, p \in Products}

\* every table of at most MaxRows line items, in every row order
SmallTables == UNION {[1..n -> RowSet] : n \in 0..MaxRows}

\* the example of the specification: T1:[Bread,Milk], T2:[Bread,Milk],
\* T3:[Bread,Eggs], T4:[Milk]
ExampleTable ==
    <<Row(1, "Bread"), Row(1, "Milk"), Row(2, "Bread"), Row(2, "Milk"),
      Row(3, "Bread"), Row(3, "Eggs"), Row(4, "Milk")>>

\* a large table: transaction 1 is [Bread, Milk], and every further
\* transaction is [Bread]; 2 * 10^4 + 1 transactions in all
BulkBaskets == 2 * RoundScale + 1
BulkTable ==
    [i \in 1..(BulkBaskets + 1) |->
        IF i = 1 THEN Row(1, "Bread")
        ELSE IF i = 2 THEN Row(1, "Milk")
        ELSE Row(i - 1, "Bread")]

Tables == SmallTables \cup {ExampleTable}

\* the same tables and the large one
BulkTables == Tables \cup {BulkTable}

\* thresholds in units of 0.0001: below the domain, 0, 0.5, above it
Thresholds == {-1, 0, RoundScale \div 2, RoundScale + 1}
Ks == (-1)..MaxK

(***************************************************************************)
(* Spec: the engine, one action per function                               *)
(***************************************************************************)
\* Variables not yet assigned hold an empty value of their own kind; pc
\* tells which of them have been assigned.
InitWith(tables) ==
    /\ pc = "loaded"
    /\ merged_df \in tables
    /\ baskets_df = <<>>
    /\ pairs = <<>>
    /\ affinity_df = <<>>
    /\ min_support = 0
    /\ min_confidence = 0
    /\ top_k = 0
    /\ selected_product = ""
    /\ top_results = <<>>
    /\ recommendations = <<>>
    /\ error = "none"
    /\ session_state = <<>>
    /\ cache = <<>>
    /\ file = <<>>
    /\ run_button = FALSE
    /\ view = "none"

Init == InitWith(Tables)

BuildBaskets ==
    /\ pc = "loaded"
    /\ baskets_df' = build_baskets(merged_df)
    /\ pc' = "baskets"
    /\ UNCHANGED <<merged_df, pairs, affinity_df, min_support,
                   min_confidence, top_k, selected_product, top_results,
                   recommendations, error>>
    /\ UNCHANGED appVars

GeneratePairs ==
    /\ pc = "baskets"
    /\ pairs' = generate_pairs(baskets_df)
    /\ pc' = "pairs"
    /\ UNCHANGED <<merged_df, baskets_df, affinity_df, min_support,
                   min_confidence, top_k, selected_product, top_results,
                   recommendations, error>>
    /\ UNCHANGED appVars

ComputeAffinityMetrics ==
    /\ pc = "pairs"
    /\ affinity_df' \in compute_affinity_metrics(pairs, baskets_df)
    /\ pc' = "metrics"
    /\ UNCHANGED <<merged_df, baskets_df, pairs, min_support,
                   min_confidence, top_k, selected_product, top_results,
                   recommendations, error>>
    /\ UNCHANGED appVars

GetTopAffinities ==
    /\ pc = "metrics"
    /\ \E ms \in Thresholds, mc \in Thresholds, k \in Ks :
        \E out \in get_top_affinities(affinity_df, ms, mc, k) :
            /\ min_support' = ms
            /\ min_confidence' = mc
            /\ top_k' = k
            /\ top_results' = out.rows
            /\ error' = out.error
    /\ pc' = "top"
    /\ UNCHANGED <<merged_df, baskets_df, pairs, affinity_df,
                   selected_product, recommendations>>
    /\ UNCHANGED appVars

Recommend ==
    /\ pc = "metrics"
    /\ \E p \in Products, ms \in Thresholds, mc \in Thresholds :
        \E out \in recommendations_for(affinity_df, p, ms, mc) :
            /\ selected_product' = p
            /\ min_support' = ms
            /\ min_confidence' = mc
            /\ recommendations' = out.rows
            /\ error' = out.error
    /\ pc' = "recs"
    /\ UNCHANGED <<merged_df, baskets_df, pairs, affinity_df, top_k,
                   top_results>>
    /\ UNCHANGED appVars

Next ==
    \/ BuildBaskets
    \/ GeneratePairs
    \/ ComputeAffinityMetrics
    \/ GetTopAffinities
    \/ Recommend

Spec == Init /\ [][Next]_vars

\* the pipeline runs to completion: no stage waits on anything
FairSpec == Init /\ [][Next]_vars /\ WF_vars(Next)

\* the engine over the tables of Spec and the large table
BulkInit == InitWith(BulkTables)

BulkSpec == BulkInit /\ [][Next]_vars

(***************************************************************************)
(* AppSpec: the Streamlit script.  Every widget interaction reruns the     *)
(* whole script from line 1; the variables of the script are local to one  *)
(* run, st.session_state and the st.cache_data memo outlive it.            *)
(***************************************************************************)
\* an optional value: None, or a value that was stored
None == <<>>
Some(v) == <<v>>

SessionKeys == {"affinity_df", "merged_df", "baskets_df"}

\* widget domains, thresholds in units of 0.0001
SupportStep == 100
SupportSlider == {SupportStep * i : i \in 1..20}
SupportDefault == 200
ConfidenceStep == 500
ConfidenceSlider == {ConfidenceStep * i : i \in 1..18}
ConfidenceDefault == 3000
TopKOptions == {5, 10, 15, 20}
TopKDefault == 10

\* tables the data files can hold
RepeatTable ==
    <<Row(1, "Eggs"), Row(1, "Eggs"), Row(1, "Milk"), Row(2, "Eggs")>>
SinglesTable == <<Row(1, "Milk"), Row(2, "Bread")>>
AppTables == {ExampleTable, RepeatTable, SinglesTable}

\* lines 8-15: a key is set to None only when it is absent
InitSessionState(ss) ==
    [k \in SessionKeys \cup DOMAIN ss |->
        IF k \in DOMAIN ss THEN ss[k] ELSE None]

\* load_data under st.cache_data: the files are read on the first call only
load_data(memo, data) == IF memo # None THEN memo[1] ELSE data

\* options of the tab2 selectbox: sorted(merged_df["product_name"].unique())
ProductOptions(df) == sorted({df[i].product_name : i \in DOMAIN df})

\* one run of the script with the given widget values
ScriptRun(pressed, ms, mc, k) ==
    /\ session_state' = InitSessionState(session_state)
    /\ min_support' = ms
    /\ min_confidence' = mc
    /\ top_k' = k
    /\ run_button' = pressed
    /\ IF pressed
       THEN LET loaded == load_data(cache, file)
                bdf == build_baskets(loaded)
                prs == generate_pairs(bdf)
            IN  /\ cache' = Some(loaded)
                /\ merged_df' = loaded
                /\ baskets_df' = bdf
                /\ pairs' = prs
                /\ \E adf \in compute_affinity_metrics(prs, bdf) :
                    /\ affinity_df' = adf
                    /\ \E top \in get_top_affinities(adf, ms, mc, k) :
                        IF top.error # "none"
                        THEN /\ error' = top.error
                             /\ top_results' = <<>>
                             /\ selected_product' = ""
                             /\ recommendations' = <<>>
                             /\ view' = "exception"
                        ELSE LET selected == ProductOptions(loaded)[1]
                             IN  \E rec \in recommendations_for(adf, selected,
                                                                ms, mc) :
                                    /\ error' = rec.error
                                    /\ top_results' = top.rows
                                    /\ selected_product' = selected
                                    /\ recommendations' = rec.rows
                                    /\ view' = "tabs"
       ELSE /\ cache' = cache
            /\ merged_df' = <<>>
            /\ baskets_df' = <<>>
            /\ pairs' = <<>>
            /\ affinity_df' = <<>>
            /\ top_results' = <<>>
            /\ selected_product' = ""
            /\ recommendations' = <<>>
            /\ error' = "none"
            /\ view' = "prompt"
    /\ UNCHANGED <<pc, file>>

AppInit ==
    /\ pc = "app"
    /\ file \in AppTables
    /\ cache = None
    /\ session_state = <<>>
    /\ run_button = FALSE
    /\ view = "none"
    /\ merged_df = <<>>
    /\ baskets_df = <<>>
    /\ pairs = <<>>
    /\ affinity_df = <<>>
    /\ min_support = SupportDefault
    /\ min_confidence = ConfidenceDefault
    /\ top_k = TopKDefault
    /\ selected_product = ""
    /\ top_results = <<>>
    /\ recommendations = <<>>
    /\ error = "none"

\* the first run of a session: every widget at its default
SessionStart ==
    /\ pc = "app"
    /\ view = "none"
    /\ ScriptRun(FALSE, min_support, min_confidence, top_k)

\* the Run Analysis button is clicked
ClickRun ==
    /\ pc = "app"
    /\ view # "none"
    /\ ScriptRun(TRUE, min_support, min_confidence, top_k)

\* a sidebar widget is moved: the script reruns, the button reads False
SetMinSupport ==
    /\ pc = "app"
    /\ view # "none"
    /\ \E v \in SupportSlider \ {min_support} :
        ScriptRun(FALSE, v, min_confidence, top_k)

SetMinConfidence ==
    /\ pc = "app"
    /\ view # "none"
    /\ \E v \in ConfidenceSlider \ {min_confidence} :
        ScriptRun(FALSE, min_support, v, top_k)

SetTopK ==
    /\ pc = "app"
    /\ view # "none"
    /\ \E v \in TopKOptions \ {top_k} :
        ScriptRun(FALSE, min_support, min_confidence, v)

\* another product is picked in the tab2 selectbox, which exists only in
\* a run that rendered the tabs
SelectProduct ==
    /\ pc = "app"
    /\ view = "tabs"
    /\ \E i \in DOMAIN ProductOptions(merged_df) :
        /\ ProductOptions(merged_df)[i] # selected_product
        /\ ScriptRun(FALSE, min_support, min_confidence, top_k)

\* the data files under BASE_PATH are replaced
ReplaceFile ==
    /\ pc = "app"
    /\ \E t \in AppTables \ {file} : file' = t
    /\ UNCHANGED <<pc, merged_df, baskets_df, pairs, affinity_df,
                   min_support, min_confidence, top_k, selected_product,
                   top_results, recommendations, error, session_state,
                   cache, run_button, view>>

AppNext ==
    \/ SessionStart
    \/ ClickRun
    \/ SetMinSupport
    \/ SetMinConfidence
    \/ SetTopK
    \/ SelectProduct
    \/ ReplaceFile

AppSpec == AppInit /\ [][AppNext]_vars

(***************************************************************************)
(* Reference quantities, read off the line-item table itself               *)
(***************************************************************************)
\* position of a product name in string order
Rank(p) == CHOOSE i \in DOMAIN ProductNames : ProductNames[i] = p

\* the transactions with at least one line item of product x
TidsWith(x) ==
    {merged_df[i].transaction_id :
        i \in {j \in DOMAIN merged_df : merged_df[j].product_name = x}}

AllTids == {merged_df[i].transaction_id : i \in DOMAIN merged_df}

BasketsContaining(x) == Cardinality(TidsWith(x))

BasketsContainingBoth(a, b) == Cardinality(TidsWith(a) \cap TidsWith(b))

\* the number of line items of product x
LineItemsOf(x) ==
    Cardinality({j \in DOMAIN merged_df : merged_df[j].product_name = x})

\* a transaction with product a on two line items and product b on another
RepeatedWith(a, b) ==
    \E i, j, k \in DOMAIN merged_df :
        /\ i # j
        /\ merged_df[i] = merged_df[j]
        /\ merged_df[i].product_name = a
        /\ merged_df[k].product_name = b
        /\ merged_df[k].transaction_id = merged_df[i].transaction_id

CountOf(counts, key) == IF key \in DOMAIN counts THEN counts[key] ELSE 0

(***************************************************************************)
(* C1: the item count used as the Confidence and Lift denominator is the   *)
(* number of distinct transactions whose basket contains the product.      *)
(***************************************************************************)
C1_ItemCountIsBasketMembership ==
    pc = "metrics" =>
        LET ic == item_counts(baskets_df)
        IN  \A x \in DOMAIN ic : ic[x] = BasketsContaining(x)

(***************************************************************************)
(* C9: every pair is counted under the key (A, B) with A before B in       *)
(* string order, and its count is the number of transactions whose basket  *)
(* contains both products.                                                 *)
(***************************************************************************)
C9_PairCountIsCoOccurrence ==
    pc = "pairs" =>
        LET pcs == pair_counts(pairs)
        IN  /\ \A key \in DOMAIN pcs :
                /\ key[1] \in Products
                /\ key[2] \in Products
                /\ Rank(key[1]) < Rank(key[2])
            /\ \A a, b \in Products :
                Rank(a) < Rank(b) =>
                    CountOf(pcs, <<a, b>>) = BasketsContainingBoth(a, b)

\* a basket with a repeated product contributed one observation of a pair
C9_Witness ==
    /\ pc = "pairs"
    /\ \E a, b \in Products :
        /\ a # b
        /\ RepeatedWith(a, b)
        /\ \E t \in AllTids : TidsWith(a) \cap TidsWith(b) = {t}
        /\ Cardinality({i \in DOMAIN pairs : set(pairs[i]) = {a, b}}) = 1

RowKey(r) == <<r.ProductA, r.ProductB>>

C7_StoredValuesPositive ==
    pc = "metrics" =>
        \A i \in DOMAIN affinity_df :
            /\ 0 < affinity_df[i].Support
            /\ affinity_df[i].Support <= RoundScale
            /\ 0 < affinity_df[i].Confidence
            /\ affinity_df[i].Confidence <= RoundScale

(***************************************************************************)
(* C7 (amended): every stored row has 0 <= Support <= 1 and                *)
(* 0 <= Confidence <= 1; a stored Support of 0 occurs only when            *)
(* 20000 * c <= total_baskets, and a stored Confidence of 0 only when      *)
(* 20000 * c <= item_count[A].                                             *)
(***************************************************************************)
C7_StoredValuesInUnitRange ==
    pc = "metrics" =>
        LET pcs == pair_counts(pairs)
            ic == item_counts(baskets_df)
            total == Cardinality(AllTids)
        IN  \A i \in DOMAIN affinity_df :
                LET r == affinity_df[i]
                    c == pcs[RowKey(r)]
                IN  /\ 0 <= r.Support
                    /\ r.Support <= RoundScale
                    /\ 0 <= r.Confidence
                    /\ r.Confidence <= RoundScale
                    /\ r.Support = 0 => 2 * RoundScale * c <= total
                    /\ r.Confidence = 0 =>
                           2 * RoundScale * c <= ic[r.ProductA]

\* a row whose Support and Confidence are both stored as 0.0
C7_Witness ==
    /\ pc = "metrics"
    /\ \E i \in DOMAIN affinity_df :
        /\ affinity_df[i].Support = 0
        /\ affinity_df[i].Confidence = 0
        /\ affinity_df[i].Lift = RoundScale

MembershipConfidence(r) ==
    Round4(<<pair_counts(pairs)[RowKey(r)], BasketsContaining(r.ProductA)>>)

SupportExceedsMembershipConfidence ==
    /\ pc = "metrics"
    /\ \E i \in DOMAIN affinity_df :
        affinity_df[i].Support > MembershipConfidence(affinity_df[i])

DirectionalConfidence(r) ==
    Round4(<<pair_counts(pairs)[RowKey(r)],
             item_counts(baskets_df)[r.ProductB]>>)

(***************************************************************************)
(* C2: a recommendation row built from a stored pair (A, B) whose second   *)
(* member is the selected product reports Confidence =                     *)
(* pair_count(A, B) / item_count[B], and the minimum-confidence threshold  *)
(* is applied to that value.                                               *)
(***************************************************************************)
C2_ReverseDirectionConfidence ==
    (pc = "recs" /\ error = "none") =>
        /\ \A i \in DOMAIN recommendations :
            LET r == recommendations[i]
            IN  r.ProductB = selected_product =>
                    /\ r.Confidence = DirectionalConfidence(r)
                    /\ DirectionalConfidence(r) >= min_confidence
        /\ \A j \in DOMAIN affinity_df :
            LET r == affinity_df[j]
            IN  (/\ r.ProductB = selected_product
                 /\ r.Support >= min_support
                 /\ DirectionalConfidence(r) >= min_confidence) =>
                    \E i \in DOMAIN recommendations :
                        RowKey(recommendations[i]) = RowKey(r)

ValidThreshold(x) == 0 <= x /\ x <= RoundScale

Qualifying ==
    {j \in DOMAIN affinity_df :
        /\ affinity_df[j].Support >= min_support
        /\ affinity_df[j].Confidence >= min_confidence}

TopRulesContract ==
    /\ error = "none"
    /\ \A i \in DOMAIN top_results :
        \E j \in Qualifying : top_results[i] = affinity_df[j]
    /\ \A i, j \in DOMAIN top_results :
        i < j => top_results[i].Lift >= top_results[j].Lift
    /\ Len(top_results) = Min(top_k, Cardinality(Qualifying))
    /\ \A j \in Qualifying :
        (\A i \in DOMAIN top_results : top_results[i] # affinity_df[j]) =>
            \A i \in DOMAIN top_results :
                top_results[i].Lift >= affinity_df[j].Lift
    /\ (min_support = 0 /\ min_confidence = 0) =>
        Len(top_results) =
            Min(top_k, Cardinality(DOMAIN pair_counts(pairs)))

(***************************************************************************)
(* C4: for valid thresholds and positive k, get_top_affinities returns     *)
(* only rows meeting both thresholds, in non-increasing order of Lift,     *)
(* the k of highest Lift among the qualifying rows (all when fewer         *)
(* qualify); with both thresholds 0 it returns min(k, number of distinct   *)
(* pairs) rows.                                                            *)
(***************************************************************************)
C4_TopRules ==
    (/\ pc = "top"
     /\ ValidThreshold(min_support)
     /\ ValidThreshold(min_confidence)
     /\ top_k > 0) => TopRulesContract

(***************************************************************************)
(* C5: with zero baskets the metric calculation ends in an                 *)
(* EmptyDatasetError and returns no metric table, not even an empty one.   *)
(***************************************************************************)
C5_EmptyDatasetRejected ==
    (pc = "metrics" /\ Cardinality(AllTids) = 0) =>
        error = "EmptyDatasetError"

(***************************************************************************)
(* C6: a call of the Rule Selector with minSupport or minConfidence        *)
(* outside [0, 1], or with k not a positive integer, is rejected with an   *)
(* InvalidParameterError and returns no rows.                              *)
(***************************************************************************)
C6_InvalidParametersRejected ==
    (/\ pc = "top"
     /\ \/ ~ValidThreshold(min_support)
        \/ ~ValidThreshold(min_confidence)
        \/ top_k <= 0) =>
        /\ error = "InvalidParameterError"
        /\ top_results = <<>>

(***************************************************************************)
(* C10: when a script run in which Run Analysis was pressed has completed, *)
(* the session-state entries affinity_df, merged_df and baskets_df hold    *)
(* that run's results.                                                     *)
(***************************************************************************)
C10_SessionStateHoldsResults ==
    (pc = "app" /\ run_button /\ view = "tabs") =>
        /\ session_state["affinity_df"] = Some(affinity_df)
        /\ session_state["merged_df"] = Some(merged_df)
        /\ session_state["baskets_df"] = Some(baskets_df)

====
